---- MODULE Spec2Model ----
(***************************************************************************)
(* cc-vol: the signup eligibility engine (phase classifier, rule           *)
(* predicates, counting queries, validation orchestrator) and the request  *)
(* handlers that write signups, over a store seeded by app/seed.py.        *)
(*                                                                         *)
(* Dates are records [y, m, d]; their ISO text form "YYYY-MM-DD" is        *)
(* compared as SQLite compares it, field by field from the left.  A        *)
(* timestamp column keeps its calendar date (all the rules read of it).    *)
(***************************************************************************)
EXTENDS Integers, Sequences, FiniteSets, TLC

VARIABLES
    volunteers,   \* table volunteers: id -> row
    signups,      \* table signups: set of rows
    today,        \* the wall clock's calendar date (date.today / CURRENT_TIMESTAMP)
    nwrites,      \* number of writes made to the signups table since seeding
    walk_start,   \* phase walk: first day of the target month
    walk_day,     \* phase walk: the day the walk stands on
    walk_k,       \* phase walk: calendar days from walk_day up to walk_start
    pending,      \* signup requests in flight: slot -> the request and where it stands
    rule_count,   \* rule predicates: the observed count last passed
    rule_max,     \* rule predicates: the limit last passed
    rule_results  \* rule predicates: what each returned for them

vars == <<volunteers, signups, today, nwrites, walk_start, walk_day, walk_k,
          pending, rule_count, rule_max, rule_results>>

storeVars == <<volunteers, signups, today, nwrites>>
walkVars == <<walk_start, walk_day, walk_k>>
raceVars == <<pending>>
ruleVars == <<rule_count, rule_max, rule_results>>

-----------------------------------------------------------------------------
(* Bounds of the model *)

\* writes to the signups table explored after seeding
MaxWrites == 2
\* how many days before the month start the phase walk goes
MaxDaysBefore == 16
\* how many days into the month the phase walk goes
MaxDaysAfter == 2
\* the largest count a rule predicate is applied to
MaxCount == 10
\* the largest limit a rule predicate is applied to
MaxLimit == 9

-----------------------------------------------------------------------------
(* datetime.date *)

Date(y, m, d) == [y |-> y, m |-> m, d |-> d]

\* SQL NULL in a timestamp column
NULL == Date(0, 0, 0)

is_leap(y) == (y % 4 = 0) /\ ((y % 100 # 0) \/ (y % 400 = 0))

days_in_month(y, m) ==
    IF m = 2 THEN (IF is_leap(y) THEN 29 ELSE 28)
    ELSE IF m \in {4, 6, 9, 11} THEN 30 ELSE 31

days_before_year(y) ==
    (y - 1) * 365 + ((y - 1) \div 4) - ((y - 1) \div 100) + ((y - 1) \div 400)

RECURSIVE days_before_month(_, _)
days_before_month(y, m) ==
    IF m = 1 THEN 0 ELSE days_before_month(y, m - 1) + days_in_month(y, m - 1)

\* date.toordinal(): 0001-01-01 is day 1
toordinal(dt) == days_before_year(dt.y) + days_before_month(dt.y, dt.m) + dt.d

\* date.weekday(): Monday is 0, Thursday is 3
weekday(dt) == (toordinal(dt) + 6) % 7

\* SQLite strftime('%w', date): Sunday is 0, Thursday is 4
strftime_w(dt) == toordinal(dt) % 7

\* date - timedelta(days=1)
prev_day(dt) ==
    IF dt.d > 1 THEN Date(dt.y, dt.m, dt.d - 1)
    ELSE IF dt.m > 1 THEN Date(dt.y, dt.m - 1, days_in_month(dt.y, dt.m - 1))
    ELSE Date(dt.y - 1, 12, 31)

\* date + timedelta(days=1)
next_day(dt) ==
    IF dt.d < days_in_month(dt.y, dt.m) THEN Date(dt.y, dt.m, dt.d + 1)
    ELSE IF dt.m < 12 THEN Date(dt.y, dt.m + 1, 1)
    ELSE Date(dt.y + 1, 1, 1)

\* date - timedelta(days=n), n >= 0
RECURSIVE minus_days(_, _)
minus_days(dt, n) == IF n = 0 THEN dt ELSE minus_days(prev_day(dt), n - 1)

\* a <= b on ISO date text: lexicographic on year, month, day
iso_le(a, b) ==
    \/ a.y < b.y
    \/ a.y = b.y /\ a.m < b.m
    \/ a.y = b.y /\ a.m = b.m /\ a.d <= b.d

\* sh.date LIKE 'YYYY-MM-%'
like_month(dt, year, month) == dt.y = year /\ dt.m = month

-----------------------------------------------------------------------------
(* app/rules/pure.py *)

BLOCKED == "blocked"
PHASE_1 == "phase_1"
PHASE_2 == "phase_2"
MID_MONTH == "mid_month"

RuleResult(allowed, reason) == [allowed |-> allowed, reason |-> reason]

\* the empty reason string of an allowed result
NoReason == <<>>

\* f"{text} ({count}/{max})"
Reason(text, count, max) == <<text, count, max>>

\* the thresholds of tests/test_rules_pure.py: no BLOCKED window
get_signup_phase_tests(td, shift_month_start) ==
    LET days_before == toordinal(shift_month_start) - toordinal(td)
    IN  IF days_before >= 14 THEN PHASE_1
        ELSE IF days_before >= 7 THEN PHASE_2
        ELSE MID_MONTH

\* the BLOCKED threshold taken strictly
get_signup_phase_off(td, shift_month_start) ==
    LET days_before == toordinal(shift_month_start) - toordinal(td)
    IN  IF days_before > 14 THEN BLOCKED
        ELSE IF days_before >= 7 THEN PHASE_1
        ELSE IF days_before > 0 THEN PHASE_2
        ELSE MID_MONTH

get_signup_phase(td, shift_month_start) ==
    LET days_before == toordinal(shift_month_start) - toordinal(td)
    IN  IF days_before >= 14 THEN BLOCKED
        ELSE IF days_before >= 7 THEN PHASE_1
        ELSE IF days_before > 0 THEN PHASE_2
        ELSE MID_MONTH

KAKAD_MAX == 2
ROBE_MAX == 4
THURSDAY_MAX == 1
PHASE1_TOTAL_MAX == 6
PHASE2_ADDITIONAL_MAX == 2
RUNNING_TOTAL_MAX == 8

\* the kakad limit passed only once it is exceeded
check_kakad_limit_off(kakad_count, max) ==
    IF kakad_count > max
    THEN RuleResult(FALSE, Reason("Kakad limit reached", kakad_count, max))
    ELSE RuleResult(TRUE, NoReason)

check_kakad_limit(kakad_count, max) ==
    IF kakad_count >= max
    THEN RuleResult(FALSE, Reason("Kakad limit reached", kakad_count, max))
    ELSE RuleResult(TRUE, NoReason)

check_robe_limit(robe_count, max) ==
    IF robe_count >= max
    THEN RuleResult(FALSE, Reason("Robe limit reached", robe_count, max))
    ELSE RuleResult(TRUE, NoReason)

check_thursday_limit(thursday_count, max) ==
    IF thursday_count >= max
    THEN RuleResult(FALSE, Reason("Thursday limit reached", thursday_count, max))
    ELSE RuleResult(TRUE, NoReason)

check_phase1_total(total_count, max) ==
    IF total_count >= max
    THEN RuleResult(FALSE, Reason("Phase 1 total limit reached", total_count, max))
    ELSE RuleResult(TRUE, NoReason)

\* imported by the validator; its definition is not in app/rules/pure.py
check_phase2_additional(phase2_count, max) ==
    IF phase2_count >= max
    THEN RuleResult(FALSE, Reason("Phase 2 additional limit reached", phase2_count, max))
    ELSE RuleResult(TRUE, NoReason)

\* the ceiling passed only once it is exceeded
check_running_total_off(total_count, max) ==
    IF total_count > max
    THEN RuleResult(FALSE, Reason("Running total limit reached", total_count, max))
    ELSE RuleResult(TRUE, NoReason)

check_running_total(total_count, max) ==
    IF total_count >= max
    THEN RuleResult(FALSE, Reason("Running total limit reached", total_count, max))
    ELSE RuleResult(TRUE, NoReason)

check_capacity_off(current_signups, capacity) ==
    IF current_signups > capacity
    THEN RuleResult(FALSE, Reason("Shift is full", current_signups, capacity))
    ELSE RuleResult(TRUE, NoReason)

check_capacity(current_signups, capacity) ==
    IF current_signups >= capacity
    THEN RuleResult(FALSE, Reason("Shift is full", current_signups, capacity))
    ELSE RuleResult(TRUE, NoReason)

-----------------------------------------------------------------------------
(* app/models/shift.py, app/seed.py: the shifts table after seed_month *)

\* the month seed_signups is run for
SeedMonthStart == Date(2026, 3, 1)

get_robe_capacity(wd) == IF wd \in {0, 2, 4, 6} THEN 3 ELSE 4

\* the month seeded after it (shifts only)
NextMonthStart == Date(2026, 4, 1)

\* seed_month inserts, for day 1..num_days, the kakad shift and then the robe
\* shift: ids 2*day-1 and 2*day, the second month's ids following the first's
SeedShiftCount == 2 * days_in_month(SeedMonthStart.y, SeedMonthStart.m)

ShiftIds == 1 .. (SeedShiftCount + 2 * days_in_month(NextMonthStart.y, NextMonthStart.m))

shifts ==
    [id \in ShiftIds |->
        LET first == IF id <= SeedShiftCount THEN SeedMonthStart ELSE NextMonthStart
            n == IF id <= SeedShiftCount THEN id ELSE id - SeedShiftCount
            dt == Date(first.y, first.m, (n + 1) \div 2)
        IN  [id |-> id,
             date |-> dt,
             shift_type |-> IF n % 2 = 1 THEN "kakad" ELSE "robe",
             capacity |-> IF n % 2 = 1 THEN 1 ELSE get_robe_capacity(weekday(dt))]]

\* UNIQUE(date, shift_type): the index from (date, type) to the shift's id
shift_index ==
    [slot \in {<<shifts[id].date, shifts[id].shift_type>> : id \in ShiftIds} |->
        CHOOSE id \in ShiftIds : <<shifts[id].date, shifts[id].shift_type>> = slot]

\* SELECT id FROM shifts WHERE date = ? AND shift_type = ?  (0: no row)
find_shift(dt, stype) ==
    IF <<dt, stype>> \in DOMAIN shift_index THEN shift_index[<<dt, stype>>] ELSE 0

-----------------------------------------------------------------------------
(* app/rules/queries.py: db is [volunteers |-> ..., signups |-> ...] *)

\* the JOIN without "AND sh.date LIKE ?": active signups of every month
ActiveInMonth_any_month(db, volunteer_id, year, month) ==
    {s \in db.signups :
        /\ s.volunteer_id = volunteer_id
        /\ s.dropped_at = NULL
        /\ s.shift_id \in ShiftIds}

\* the JOIN of an active signup with its shift, for one volunteer and month
ActiveInMonth(db, volunteer_id, year, month) ==
    {s \in db.signups :
        /\ s.volunteer_id = volunteer_id
        /\ s.dropped_at = NULL
        /\ s.shift_id \in ShiftIds
        /\ like_month(shifts[s.shift_id].date, year, month)}

\* the kakad count without "AND s.dropped_at IS NULL"
get_kakad_count_all(db, volunteer_id, year, month) ==
    Cardinality({s \in db.signups :
                    /\ s.volunteer_id = volunteer_id
                    /\ like_month(shifts[s.shift_id].date, year, month)
                    /\ shifts[s.shift_id].shift_type = "kakad"})

get_kakad_count(db, volunteer_id, year, month) ==
    Cardinality({s \in ActiveInMonth(db, volunteer_id, year, month) :
                    shifts[s.shift_id].shift_type = "kakad"})

get_robe_count(db, volunteer_id, year, month) ==
    Cardinality({s \in ActiveInMonth(db, volunteer_id, year, month) :
                    shifts[s.shift_id].shift_type = "robe"})

get_total_count(db, volunteer_id, year, month) ==
    Cardinality(ActiveInMonth(db, volunteer_id, year, month))

get_thursday_count(db, volunteer_id, year, month) ==
    Cardinality({s \in ActiveInMonth(db, volunteer_id, year, month) :
                    strftime_w(shifts[s.shift_id].date) = 4})

\* the window taken without its two end days
get_phase2_count_open(db, volunteer_id, year, month) ==
    LET month_start == Date(year, month, 1)
        phase2_start == minus_days(month_start, 13)
        phase2_end == minus_days(month_start, 7)
    IN  Cardinality({s \in ActiveInMonth(db, volunteer_id, year, month) :
                        /\ iso_le(phase2_start, s.signed_up_at)
                        /\ iso_le(s.signed_up_at, phase2_end)
                        /\ s.signed_up_at \notin {phase2_start, phase2_end}})

get_phase2_count(db, volunteer_id, year, month) ==
    LET month_start == Date(year, month, 1)
        phase2_start == minus_days(month_start, 13)
        phase2_end == minus_days(month_start, 7)
    IN  Cardinality({s \in ActiveInMonth(db, volunteer_id, year, month) :
                        /\ iso_le(phase2_start, s.signed_up_at)
                        /\ iso_le(s.signed_up_at, phase2_end)})

\* the shift's count without "AND dropped_at IS NULL"
get_shift_signup_count_all(db, shift_id) ==
    Cardinality({s \in db.signups : s.shift_id = shift_id})

\* the count taken over the dropped rows instead of the active ones
get_shift_signup_count_dropped(db, shift_id) ==
    Cardinality({s \in db.signups : s.shift_id = shift_id /\ s.dropped_at # NULL})

get_shift_signup_count(db, shift_id) ==
    Cardinality({s \in db.signups : s.shift_id = shift_id /\ s.dropped_at = NULL})

-----------------------------------------------------------------------------
(* app/rules/validator.py *)

\* what a call gives back: a list of violations, or an exception raised
Returned(violations) == [raised |-> "", violations |-> violations]
Raised(exc) == [raised |-> exc, violations |-> <<>>]

NotApproved == RuleResult(FALSE, <<"Volunteer is not approved to sign up">>)

\* "if not r.allowed: violations.append(r)"
Appended(r) == IF r.allowed THEN <<>> ELSE <<r>>

\* the volunteer row is missing or its status is not 'approved'
volunteer_rejected_any_row(db, volunteer_id) ==
    volunteer_id \notin DOMAIN db.volunteers

volunteer_rejected(db, volunteer_id) ==
    \/ volunteer_id \notin DOMAIN db.volunteers
    \/ db.volunteers[volunteer_id].status # "approved"

\* --- Capacity is always checked ---
capacity_violations(db, shift_id, capacity) ==
    Appended(check_capacity(get_shift_signup_count(db, shift_id), capacity))

\* --- Phase 1 rules ---: a Thursday check on every weekday
phase1_violations_any_day(db, volunteer_id, shift, year, month) ==
    Appended(check_phase1_total(get_total_count(db, volunteer_id, year, month), PHASE1_TOTAL_MAX))
    \o (IF shift.shift_type = "kakad"
        THEN Appended(check_kakad_limit(get_kakad_count(db, volunteer_id, year, month), KAKAD_MAX))
        ELSE <<>>)
    \o (IF shift.shift_type = "robe"
        THEN Appended(check_robe_limit(get_robe_count(db, volunteer_id, year, month), ROBE_MAX))
        ELSE <<>>)
    \o Appended(check_thursday_limit(get_thursday_count(db, volunteer_id, year, month), THURSDAY_MAX))

\* the Phase 1 rules with the total checked last
phase1_violations_total_last(db, volunteer_id, shift, year, month) ==
    (IF shift.shift_type = "kakad"
     THEN Appended(check_kakad_limit(get_kakad_count(db, volunteer_id, year, month), KAKAD_MAX))
     ELSE <<>>)
    \o (IF shift.shift_type = "robe"
        THEN Appended(check_robe_limit(get_robe_count(db, volunteer_id, year, month), ROBE_MAX))
        ELSE <<>>)
    \o (IF weekday(shift.date) = 3
        THEN Appended(check_thursday_limit(get_thursday_count(db, volunteer_id, year, month), THURSDAY_MAX))
        ELSE <<>>)
    \o Appended(check_phase1_total(get_total_count(db, volunteer_id, year, month), PHASE1_TOTAL_MAX))

\* --- Phase 1 rules ---
phase1_violations(db, volunteer_id, shift, year, month) ==
    Appended(check_phase1_total(get_total_count(db, volunteer_id, year, month), PHASE1_TOTAL_MAX))
    \o (IF shift.shift_type = "kakad"
        THEN Appended(check_kakad_limit(get_kakad_count(db, volunteer_id, year, month), KAKAD_MAX))
        ELSE <<>>)
    \o (IF shift.shift_type = "robe"
        THEN Appended(check_robe_limit(get_robe_count(db, volunteer_id, year, month), ROBE_MAX))
        ELSE <<>>)
    \o (IF weekday(shift.date) = 3
        THEN Appended(check_thursday_limit(get_thursday_count(db, volunteer_id, year, month), THURSDAY_MAX))
        ELSE <<>>)

\* --- Phase 2 rules ---: the Phase-1 ceiling kept for the running total
phase2_violations_p1_total(db, volunteer_id, year, month) ==
    Appended(check_phase2_additional(get_phase2_count(db, volunteer_id, year, month), PHASE2_ADDITIONAL_MAX))
    \o Appended(check_phase1_total(get_total_count(db, volunteer_id, year, month), PHASE1_TOTAL_MAX))

\* --- Phase 2 rules ---
phase2_violations(db, volunteer_id, year, month) ==
    Appended(check_phase2_additional(get_phase2_count(db, volunteer_id, year, month), PHASE2_ADDITIONAL_MAX))
    \o Appended(check_running_total(get_total_count(db, volunteer_id, year, month), RUNNING_TOTAL_MAX))

\* validate_signup without the mid-month early return
validate_signup_no_mid_return(db, volunteer_id, shift_id, td) ==
    IF volunteer_rejected(db, volunteer_id)
    THEN Returned(<<NotApproved>>)
    ELSE IF shift_id \notin ShiftIds
    THEN Raised("ValueError")
    ELSE
        LET shift == shifts[shift_id]
            month_start == Date(shift.date.y, shift.date.m, 1)
            phase == get_signup_phase(td, month_start)
        IN  Returned(
                capacity_violations(db, shift_id, shift.capacity)
                \o (IF phase \in {PHASE_1, MID_MONTH}
                    THEN phase1_violations(db, volunteer_id, shift, month_start.y, month_start.m)
                    ELSE <<>>)
                \o (IF phase = PHASE_2
                    THEN phase2_violations(db, volunteer_id, month_start.y, month_start.m)
                    ELSE <<>>))

\* validate_signup answering a missing shift with an empty list
validate_signup_missing_shift_allowed(db, volunteer_id, shift_id, td) ==
    IF volunteer_rejected(db, volunteer_id)
    THEN Returned(<<NotApproved>>)
    ELSE IF shift_id \notin ShiftIds
    THEN Returned(<<>>)
    ELSE
        LET shift == shifts[shift_id]
            month_start == Date(shift.date.y, shift.date.m, 1)
            phase == get_signup_phase(td, month_start)
            violations == capacity_violations(db, shift_id, shift.capacity)
        IN  IF phase = MID_MONTH
            THEN Returned(violations)
            ELSE Returned(
                    violations
                    \o (IF phase = PHASE_1
                        THEN phase1_violations(db, volunteer_id, shift,
                                               month_start.y, month_start.m)
                        ELSE <<>>)
                    \o (IF phase = PHASE_2
                        THEN phase2_violations(db, volunteer_id, month_start.y, month_start.m)
                        ELSE <<>>))

validate_signup(db, volunteer_id, shift_id, td) ==
    IF volunteer_rejected(db, volunteer_id)
    THEN Returned(<<NotApproved>>)
    ELSE IF shift_id \notin ShiftIds
    THEN Raised("ValueError")
    ELSE
        LET shift == shifts[shift_id]
            month_start == Date(shift.date.y, shift.date.m, 1)
            year == month_start.y
            month == month_start.m
            phase == get_signup_phase(td, month_start)
            violations == capacity_violations(db, shift_id, shift.capacity)
        IN  IF phase = MID_MONTH
            THEN Returned(violations)
            ELSE Returned(
                    violations
                    \o (IF phase = PHASE_1
                        THEN phase1_violations(db, volunteer_id, shift, year, month)
                        ELSE <<>>)
                    \o (IF phase = PHASE_2
                        THEN phase2_violations(db, volunteer_id, year, month)
                        ELSE <<>>))

-----------------------------------------------------------------------------
(* app/models/signup.py *)

SignupRow(id, volunteer_id, shift_id, signed_up_at, dropped_at) ==
    [id |-> id, volunteer_id |-> volunteer_id, shift_id |-> shift_id,
     signed_up_at |-> signed_up_at, dropped_at |-> dropped_at]

\* AUTOINCREMENT: one more than the largest id ever used (rows are never deleted)
lastrowid(rows) ==
    IF rows = {} THEN 1
    ELSE 1 + (CHOOSE n \in {r.id : r \in rows} : \A r \in rows : r.id <= n)

\* SELECT * FROM signups WHERE volunteer_id = ? AND shift_id = ?
existing_signup(rows, volunteer_id, shift_id) ==
    {r \in rows : r.volunteer_id = volunteer_id /\ r.shift_id = shift_id}

\* create_signup that inserts a fresh row where the pair's row is dropped
create_signup_second_row(rows, volunteer_id, shift_id, now) ==
    IF \E r \in existing_signup(rows, volunteer_id, shift_id) : r.dropped_at = NULL
    THEN rows
    ELSE rows \cup {SignupRow(lastrowid(rows), volunteer_id, shift_id, now, NULL)}

\* create_signup reactivating with "SET dropped_at = NULL" alone
create_signup_keep_stamp(rows, volunteer_id, shift_id, now) ==
    LET existing == existing_signup(rows, volunteer_id, shift_id)
    IN  IF existing # {}
        THEN LET e == CHOOSE r \in existing : TRUE
             IN  IF e.dropped_at # NULL
                 THEN (rows \ {e}) \cup
                      {SignupRow(e.id, e.volunteer_id, e.shift_id, e.signed_up_at, NULL)}
                 ELSE rows
        ELSE rows \cup {SignupRow(lastrowid(rows), volunteer_id, shift_id, now, NULL)}

\* the signups table after create_signup, run at date now
create_signup(rows, volunteer_id, shift_id, now) ==
    LET existing == existing_signup(rows, volunteer_id, shift_id)
    IN  IF existing # {}
        THEN LET e == CHOOSE r \in existing : TRUE
             IN  IF e.dropped_at # NULL
                 THEN (rows \ {e}) \cup
                      {SignupRow(e.id, e.volunteer_id, e.shift_id, now, NULL)}
                 ELSE rows
        ELSE rows \cup {SignupRow(lastrowid(rows), volunteer_id, shift_id, now, NULL)}

\* the exception a call of create_signup ends with ("": it returns a row).
\* The INSERT is reached only when the SELECT found no row for the pair, and
\* UNIQUE(volunteer_id, shift_id) refuses it only when such a row exists.
create_signup_raises(rows, volunteer_id, shift_id) ==
    LET existing == existing_signup(rows, volunteer_id, shift_id)
    IN  IF existing # {}
        THEN ""
        ELSE IF \E r \in rows : r.volunteer_id = volunteer_id /\ r.shift_id = shift_id
        THEN "sqlite3.IntegrityError"
        ELSE ""

\* a drop that deletes the row
drop_signup_delete(rows, signup_id, now) ==
    {r \in rows : r.id # signup_id}

\* the signups table after drop_signup, run at date now
drop_signup(rows, signup_id, now) ==
    {IF r.id = signup_id
     THEN SignupRow(r.id, r.volunteer_id, r.shift_id, r.signed_up_at, now)
     ELSE r : r \in rows}

-----------------------------------------------------------------------------
(* app/seed.py *)

VolunteerRow(status, is_coordinator) ==
    [status |-> status, is_coordinator |-> is_coordinator, removed |-> FALSE]

\* seed_volunteers: VOLUNTEER_DATA, ids 1..10, the first two coordinators
seed_volunteers ==
    [id \in 1..10 |-> VolunteerRow("approved", id \in {1, 2})]

\* the signups table after _do_signup, run at date now
_do_signup(db, volunteer_id, shift_id, simulated_today, now) ==
    IF validate_signup(db, volunteer_id, shift_id, simulated_today).violations # <<>>
    THEN db.signups
    ELSE LET created == create_signup(db.signups, volunteer_id, shift_id, now)
         IN  {IF r.volunteer_id = volunteer_id /\ r.shift_id = shift_id
              THEN SignupRow(r.id, r.volunteer_id, r.shift_id, simulated_today, r.dropped_at)
              ELSE r : r \in created}

SeedCmd(volunteer_id, day, stype, td, drop) ==
    [volunteer_id |-> volunteer_id,
     shift_id |-> find_shift(Date(SeedMonthStart.y, SeedMonthStart.m, day), stype),
     td |-> td, drop |-> drop]

phase1_today == minus_days(SeedMonthStart, 15)
phase2_today == minus_days(SeedMonthStart, 7)

\* "Fill all slots for first couple days": one command per capacity slot,
\* the five fillers taken in rotation
RECURSIVE FillerSlots(_)
FillerSlots(ids) ==
    IF ids = <<>> THEN <<>>
    ELSE [i \in 1..shifts[Head(ids)].capacity |-> Head(ids)] \o FillerSlots(Tail(ids))

FillerCmds ==
    LET first == Date(SeedMonthStart.y, SeedMonthStart.m, 1)
        second == Date(SeedMonthStart.y, SeedMonthStart.m, 2)
        slots == FillerSlots(<<find_shift(first, "kakad"), find_shift(first, "robe"),
                               find_shift(second, "kakad"), find_shift(second, "robe")>>)
        fillers == <<6, 7, 8, 9, 10>>
    IN  [i \in 1..Len(slots) |->
            [volunteer_id |-> fillers[((i - 1) % 5) + 1], shift_id |-> slots[i],
             td |-> phase1_today, drop |-> FALSE]]

\* the scenarios of seed_signups, in program order
SeedCmds ==
    <<SeedCmd(1, 3, "kakad", phase1_today, FALSE), SeedCmd(1, 4, "kakad", phase1_today, FALSE),
      SeedCmd(1, 5, "robe", phase1_today, FALSE), SeedCmd(1, 6, "robe", phase1_today, FALSE),
      SeedCmd(1, 7, "robe", phase1_today, FALSE), SeedCmd(1, 8, "robe", phase1_today, FALSE),
      SeedCmd(2, 5, "kakad", phase1_today, FALSE),
      SeedCmd(3, 9, "kakad", phase1_today, FALSE), SeedCmd(3, 10, "kakad", phase1_today, FALSE),
      SeedCmd(3, 11, "robe", phase1_today, FALSE), SeedCmd(3, 12, "robe", phase1_today, FALSE),
      SeedCmd(3, 13, "robe", phase1_today, FALSE), SeedCmd(3, 14, "robe", phase1_today, FALSE),
      SeedCmd(3, 15, "robe", phase2_today, FALSE), SeedCmd(3, 16, "robe", phase2_today, FALSE),
      SeedCmd(4, 17, "robe", phase1_today, FALSE), SeedCmd(4, 18, "robe", phase1_today, TRUE),
      SeedCmd(5, 19, "robe", phase1_today, FALSE)>>
    \o FillerCmds

\* the signups table after the commands cmds[i..], run at date now (the
\* row count is taken first so that the table is computed step by step)
RECURSIVE seed_signups_from(_, _, _, _)
seed_signups_from(rows, cmds, i, now) ==
    IF Cardinality(rows) < 0 \/ i > Len(cmds) THEN rows
    ELSE LET c == cmds[i]
             db == [volunteers |-> seed_volunteers, signups |-> rows]
             after == _do_signup(db, c.volunteer_id, c.shift_id, c.td, now)
             mine == existing_signup(after, c.volunteer_id, c.shift_id)
             ok == validate_signup(db, c.volunteer_id, c.shift_id, c.td).violations = <<>>
             dropped == IF c.drop /\ ok /\ mine # {}
                        THEN drop_signup(after, (CHOOSE r \in mine : TRUE).id, now)
                        ELSE after
         IN  seed_signups_from(dropped, cmds, i + 1, now)

seed_signups(now) == seed_signups_from({}, SeedCmds, 1, now)

-----------------------------------------------------------------------------
(* The store and the requests explored *)

\* days the wall clock is read on, as days before SeedMonthStart: both ends of
\* every phase window
ClockOffsets == {14, 13, 7, 6, 0}

ClockDays == {minus_days(SeedMonthStart, n) : n \in ClockOffsets}

ClockStart == minus_days(SeedMonthStart, 14)

\* volunteers whose requests are explored: Sonia (2 kakad + 4 robe), Raghu (one
\* Thursday kakad) and the pending one
ReqVolunteers == {1, 2, 11}

SeedShift(day, stype) == find_shift(Date(SeedMonthStart.y, SeedMonthStart.m, day), stype)

\* shifts the explored requests name
ReqShiftIds ==
    {SeedShift(5, "kakad"), SeedShift(5, "robe"), SeedShift(9, "robe"),
     SeedShift(11, "kakad")}

\* (date, type) pairs the bot commands name: the shifts above and a date
\* without shifts
ReqSlots ==
    {<<shifts[id].date, shifts[id].shift_type>> : id \in ReqShiftIds}
    \cup {<<Date(2026, 5, 1), "kakad">>}

Db == [volunteers |-> volunteers, signups |-> signups]

\* a request answered without a write: the store is left as it is
Answer(op, status, detail) == UNCHANGED <<signups, nwrites>>

\* the answer that follows a write (the answers themselves are not kept)
Answered(op, status, detail) == TRUE

Reasons(violations) == [i \in 1..Len(violations) |-> violations[i].reason]

\* get_volunteer_by_phone: the row of a known, non-removed volunteer (0: None)
get_volunteer_by_phone(vols, who) ==
    IF who \in DOMAIN vols /\ ~vols[who].removed THEN who ELSE 0

\* get_volunteer_context: None (0) unless registered and approved
get_volunteer_context(vols, who) ==
    LET v == get_volunteer_by_phone(vols, who)
    IN  IF v = 0 \/ vols[v].status # "approved" THEN 0 ELSE v

active_signup(rows, volunteer_id, shift_id) ==
    {r \in rows : r.volunteer_id = volunteer_id /\ r.shift_id = shift_id /\ r.dropped_at = NULL}

\* the volunteers table: the seeded ten, then a pending registration (11), a
\* rejected one (12) and a volunteer approved since, without signups (13)
RegisteredVolunteers ==
    [id \in 1..13 |->
        IF id <= 10 THEN seed_volunteers[id]
        ELSE IF id = 11 THEN VolunteerRow("pending", FALSE)
        ELSE IF id = 12 THEN VolunteerRow("rejected", FALSE)
        ELSE VolunteerRow("approved", FALSE)]

Init ==
    /\ volunteers = RegisteredVolunteers
    /\ signups = seed_signups(ClockStart)
    /\ today = ClockStart
    /\ nwrites = 0
    /\ walk_start = SeedMonthStart
    /\ walk_day = SeedMonthStart
    /\ walk_k = 0
    /\ pending = <<>>
    /\ rule_count = 0
    /\ rule_max = 0
    /\ rule_results = <<>>

\* POST /api/signups
post_signup(who, shift_id) ==
    LET volunteer == get_volunteer_by_phone(volunteers, who)
    IN  /\ IF volunteer = 0
           THEN Answer("post_signup", "404 Volunteer not found", <<>>)
           ELSE IF shift_id \notin ShiftIds
           THEN Answer("post_signup", "404 Shift not found", <<>>)
           ELSE IF active_signup(signups, volunteer, shift_id) # {}
           THEN Answer("post_signup", "409 Duplicate signup", <<>>)
           ELSE LET violations == validate_signup(Db, volunteer, shift_id, today).violations
                IN  IF violations # <<>>
                    THEN Answer("post_signup", "422", Reasons(violations))
                    ELSE /\ nwrites < MaxWrites
                         /\ signups' = create_signup(signups, volunteer, shift_id, today)
                         /\ nwrites' = nwrites + 1
                         /\ Answered("post_signup", "201", <<>>)
        /\ UNCHANGED <<volunteers, today, walkVars, raceVars, ruleVars>>

\* POST /api/wa/incoming with a "signup <date> kakad|robe" message
wa_signup(who, shift_date, shift_type) ==
    LET context == get_volunteer_context(volunteers, who)
        shift_id == find_shift(shift_date, shift_type)
    IN  /\ IF context = 0
           THEN Answer("wa_incoming", "Send 'register <your name>'", <<>>)
           ELSE IF shift_id = 0
           THEN Answer("handle_signup", "No shift found", <<>>)
           ELSE LET violations == validate_signup(Db, context, shift_id, today).violations
                IN  IF violations # <<>>
                    THEN Answer("handle_signup", "Cannot sign up", Reasons(violations))
                    ELSE /\ nwrites < MaxWrites
                         /\ signups' = create_signup(signups, context, shift_id, today)
                         /\ nwrites' = nwrites + 1
                         /\ Answered("handle_signup", "Signed up", <<>>)
        /\ UNCHANGED <<volunteers, today, walkVars, raceVars, ruleVars>>

\* the status and detail POST /api/signups answers with
post_signup_reply(who, shift_id) ==
    LET volunteer == get_volunteer_by_phone(volunteers, who)
    IN  IF volunteer = 0 THEN "404 Volunteer not found"
        ELSE IF shift_id \notin ShiftIds THEN "404 Shift not found"
        ELSE IF active_signup(signups, volunteer, shift_id) # {} THEN "409 Duplicate signup"
        ELSE IF validate_signup(Db, volunteer, shift_id, today).violations # <<>> THEN "422"
        ELSE IF create_signup_raises(signups, volunteer, shift_id) # "" THEN "500"
        ELSE "201"

\* the opening words of the message the bot answers a signup command with
handle_signup_reply(who, shift_date, shift_type) ==
    LET context == get_volunteer_context(volunteers, who)
        shift_id == find_shift(shift_date, shift_type)
    IN  IF context = 0 THEN "Send 'register <your name>'"
        ELSE IF shift_id = 0 THEN "No shift found"
        ELSE IF validate_signup(Db, context, shift_id, today).violations # <<>>
        THEN "Cannot sign up"
        ELSE IF create_signup_raises(signups, context, shift_id) = "sqlite3.IntegrityError"
        THEN "Already signed up"
        ELSE "Signed up"

\* the status DELETE /api/signups/{signup_id} answers with
delete_signup_reply(signup_id) ==
    IF ~\E r \in signups : r.id = signup_id /\ r.dropped_at = NULL
    THEN "404 Signup not found"
    ELSE "204"

\* the opening words of the message the bot answers a drop command with
handle_drop_reply(who, shift_date, shift_type) ==
    LET context == get_volunteer_context(volunteers, who)
        shift_id == find_shift(shift_date, shift_type)
    IN  IF context = 0 THEN "Send 'register <your name>'"
        ELSE IF shift_id = 0 THEN "No shift found"
        ELSE IF active_signup(signups, context, shift_id) = {}
        THEN "You don't have an active signup"
        ELSE "Dropped"

\* the DELETE handler selecting the row without "AND su.dropped_at IS NULL"
delete_signup_any_row(signup_id) ==
    /\ IF ~\E r \in signups : r.id = signup_id
       THEN Answer("delete_signup", "404 Signup not found", <<>>)
       ELSE /\ nwrites < MaxWrites
            /\ signups' = drop_signup(signups, signup_id, today)
            /\ nwrites' = nwrites + 1
            /\ Answered("delete_signup", "204", <<>>)
    /\ UNCHANGED <<volunteers, today, walkVars, raceVars, ruleVars>>

\* DELETE /api/signups/{signup_id}
delete_signup(signup_id) ==
    /\ IF ~\E r \in signups : r.id = signup_id /\ r.dropped_at = NULL
       THEN Answer("delete_signup", "404 Signup not found", <<>>)
       ELSE /\ nwrites < MaxWrites
            /\ signups' = drop_signup(signups, signup_id, today)
            /\ nwrites' = nwrites + 1
            /\ Answered("delete_signup", "204", <<>>)
    /\ UNCHANGED <<volunteers, today, walkVars, raceVars, ruleVars>>

\* POST /api/wa/incoming with a "drop <date> kakad|robe" message
wa_drop(who, shift_date, shift_type) ==
    LET context == get_volunteer_context(volunteers, who)
        shift_id == find_shift(shift_date, shift_type)
    IN  /\ IF context = 0
           THEN Answer("wa_incoming", "Send 'register <your name>'", <<>>)
           ELSE IF shift_id = 0
           THEN Answer("handle_drop", "No shift found", <<>>)
           ELSE IF active_signup(signups, context, shift_id) = {}
           THEN Answer("handle_drop", "You don't have an active signup", <<>>)
           ELSE /\ nwrites < MaxWrites
                /\ signups' = drop_signup(signups,
                        (CHOOSE r \in active_signup(signups, context, shift_id) : TRUE).id, today)
                /\ nwrites' = nwrites + 1
                /\ Answered("handle_drop", "Dropped", <<>>)
        /\ UNCHANGED <<volunteers, today, walkVars, raceVars, ruleVars>>

\* the wall clock reaches a later day
Tick(d) ==
    /\ toordinal(d) > toordinal(today)
    /\ today' = d
    /\ UNCHANGED <<volunteers, signups, nwrites, walkVars, raceVars, ruleVars>>

\* signup ids the explored DELETE requests name: the rows of the explored
\* volunteers on the explored shifts, and an id no row has
ReqSignupIds ==
    {r.id : r \in {x \in signups : x.volunteer_id \in ReqVolunteers /\ x.shift_id \in ReqShiftIds}}
    \cup {0}

Next ==
    \/ \E who \in ReqVolunteers, shift_id \in ReqShiftIds \cup {0} : post_signup(who, shift_id)
    \/ \E who \in ReqVolunteers, slot \in ReqSlots : wa_signup(who, slot[1], slot[2])
    \/ \E signup_id \in ReqSignupIds : delete_signup(signup_id)
    \/ \E who \in ReqVolunteers, slot \in ReqSlots : wa_drop(who, slot[1], slot[2])
    \/ \E d \in ClockDays : Tick(d)

Spec == Init /\ [][Next]_vars

-----------------------------------------------------------------------------
(* The same handlers over a store where one volunteer made her six signups
   during PHASE_1 *)

\* the days of PHASE_1 the six signups are made on: its first and its last
LadderDays == {minus_days(SeedMonthStart, 13), minus_days(SeedMonthStart, 7)}

\* Sonia's six signups (2 kakad + 4 robe), each validated and created on day p1
LadderSignups(p1) ==
    seed_signups_from({}, [i \in 1..6 |-> [SeedCmds[i] EXCEPT !.td = p1]], 1, p1)

InitLadder ==
    /\ volunteers = RegisteredVolunteers
    /\ \E p1 \in LadderDays : signups = LadderSignups(p1) /\ today = p1
    /\ nwrites = 0
    /\ walk_start = SeedMonthStart
    /\ walk_day = SeedMonthStart
    /\ walk_k = 0
    /\ pending = <<>>
    /\ rule_count = 0
    /\ rule_max = 0
    /\ rule_results = <<>>

SpecLadder == InitLadder /\ [][Next]_vars

-----------------------------------------------------------------------------
(* The same handlers over a store where one volunteer asked for nine shifts
   during PHASE_2 *)

\* the days of PHASE_2 the requests are made on: its first and its last
RunningDays == {minus_days(SeedMonthStart, 6), minus_days(SeedMonthStart, 1)}

\* Raghu's nine requests in the order made, each validated on day p2 and
\* created when it was allowed
RunningCmds(p2) ==
    <<SeedCmd(2, 5, "kakad", p2, FALSE), SeedCmd(2, 5, "robe", p2, FALSE),
      SeedCmd(2, 9, "robe", p2, FALSE), SeedCmd(2, 12, "kakad", p2, FALSE),
      SeedCmd(2, 13, "robe", p2, FALSE), SeedCmd(2, 14, "robe", p2, FALSE),
      SeedCmd(2, 15, "kakad", p2, FALSE), SeedCmd(2, 16, "robe", p2, FALSE),
      SeedCmd(2, 11, "kakad", p2, FALSE)>>

RunningSignups(p2) == seed_signups_from({}, RunningCmds(p2), 1, p2)

InitRunning ==
    /\ volunteers = RegisteredVolunteers
    /\ \E p2 \in RunningDays : signups = RunningSignups(p2) /\ today = p2
    /\ nwrites = 0
    /\ walk_start = SeedMonthStart
    /\ walk_day = SeedMonthStart
    /\ walk_k = 0
    /\ pending = <<>>
    /\ rule_count = 0
    /\ rule_max = 0
    /\ rule_results = <<>>

SpecRunning == InitRunning /\ [][Next]_vars

-----------------------------------------------------------------------------
(* Signup requests served by concurrent workers over the one connection: a
   request can be overtaken between its validation and create_signup, and
   inside create_signup between the SELECT and the INSERT *)

\* requests in flight or answered that one run follows
MaxInflight == 2

\* the requesters and the shift of the interleaved requests: Raghu and Anita,
\* and the kakad shift of the 11th (capacity 1, free after seeding)
RaceVolunteers == {2, 4}
RaceShiftIds == {SeedShift(11, "kakad")}

\* a request: who asked through which endpoint, the statement it stands
\* before ("create_signup", "insert") or "done", and the answer given
Request(via, volunteer_id, shift_id, at, reply) ==
    [via |-> via, volunteer_id |-> volunteer_id, shift_id |-> shift_id,
     at |-> at, reply |-> reply]

InitRace ==
    /\ volunteers = RegisteredVolunteers
    /\ signups = seed_signups(ClockStart)
    /\ today \in ClockDays
    /\ nwrites = 0
    /\ walk_start = SeedMonthStart
    /\ walk_day = SeedMonthStart
    /\ walk_k = 0
    /\ pending = <<>>
    /\ rule_count = 0
    /\ rule_max = 0
    /\ rule_results = <<>>

\* post_signup up to the call of create_signup
post_signup_validate(who, shift_id) ==
    LET volunteer == get_volunteer_by_phone(volunteers, who)
        reply == IF volunteer = 0 THEN "404 Volunteer not found"
                 ELSE IF shift_id \notin ShiftIds THEN "404 Shift not found"
                 ELSE IF active_signup(signups, volunteer, shift_id) # {}
                 THEN "409 Duplicate signup"
                 ELSE IF validate_signup(Db, volunteer, shift_id, today).violations # <<>>
                 THEN "422"
                 ELSE ""
    IN  /\ Len(pending) < MaxInflight
        /\ pending' = Append(pending,
                Request("post_signup", volunteer, shift_id,
                        IF reply = "" THEN "create_signup" ELSE "done", reply))
        /\ UNCHANGED <<storeVars, walkVars, ruleVars>>

\* handle_signup up to the call of create_signup
handle_signup_validate(who, shift_date, shift_type) ==
    LET context == get_volunteer_context(volunteers, who)
        shift_id == find_shift(shift_date, shift_type)
        reply == IF context = 0 THEN "Send 'register <your name>'"
                 ELSE IF shift_id = 0 THEN "No shift found"
                 ELSE IF validate_signup(Db, context, shift_id, today).violations # <<>>
                 THEN "Cannot sign up"
                 ELSE ""
    IN  /\ Len(pending) < MaxInflight
        /\ pending' = Append(pending,
                Request("handle_signup", context, shift_id,
                        IF reply = "" THEN "create_signup" ELSE "done", reply))
        /\ UNCHANGED <<storeVars, walkVars, ruleVars>>

\* the answer of a caller whose create_signup returned a signup
Confirmed(via) == IF via = "post_signup" THEN "201" ELSE "Signed up"

\* the answer of a caller whose create_signup raised sqlite3.IntegrityError:
\* handle_signup catches it, post_signup does not
Conflict(via) == IF via = "post_signup" THEN "500 IntegrityError" ELSE "Already signed up"

\* create_signup, the SELECT of the pair's row and what follows when it exists
create_signup_select(i) ==
    LET q == pending[i]
        existing == existing_signup(signups, q.volunteer_id, q.shift_id)
    IN  /\ q.at = "create_signup"
        /\ IF existing = {}
           THEN /\ pending' = [pending EXCEPT ![i].at = "insert"]
                /\ UNCHANGED <<signups, nwrites>>
           ELSE /\ signups' = create_signup(signups, q.volunteer_id, q.shift_id, today)
                /\ nwrites' = nwrites + (IF signups' = signups THEN 0 ELSE 1)
                /\ pending' = [pending EXCEPT ![i].at = "done", ![i].reply = Confirmed(q.via)]
        /\ UNCHANGED <<volunteers, today, walkVars, ruleVars>>

\* create_signup, the INSERT: UNIQUE(volunteer_id, shift_id) refuses a second
\* row for the pair
create_signup_insert(i) ==
    LET q == pending[i]
    IN  /\ q.at = "insert"
        /\ IF existing_signup(signups, q.volunteer_id, q.shift_id) # {}
           THEN /\ pending' = [pending EXCEPT ![i].at = "done", ![i].reply = Conflict(q.via)]
                /\ UNCHANGED <<signups, nwrites>>
           ELSE /\ signups' = signups \cup
                        {SignupRow(lastrowid(signups), q.volunteer_id, q.shift_id, today, NULL)}
                /\ nwrites' = nwrites + 1
                /\ pending' = [pending EXCEPT ![i].at = "done", ![i].reply = Confirmed(q.via)]
        /\ UNCHANGED <<volunteers, today, walkVars, ruleVars>>

NextRace ==
    \/ \E who \in RaceVolunteers, shift_id \in RaceShiftIds : post_signup_validate(who, shift_id)
    \/ \E who \in RaceVolunteers, shift_id \in RaceShiftIds :
            handle_signup_validate(who, shifts[shift_id].date, shifts[shift_id].shift_type)
    \/ \E i \in DOMAIN pending : create_signup_select(i)
    \/ \E i \in DOMAIN pending : create_signup_insert(i)

SpecRace == InitRace /\ [][NextRace]_vars

-----------------------------------------------------------------------------
(* The handlers together with the removal of a volunteer *)

\* DELETE /api/volunteers/{phone}: remove_volunteer sets removed_at
delete_volunteer(who) ==
    LET vol == get_volunteer_by_phone(volunteers, who)
    IN  /\ IF vol = 0
           THEN UNCHANGED volunteers
           ELSE volunteers' = [volunteers EXCEPT ![vol].removed = TRUE]
        /\ UNCHANGED <<signups, nwrites, today, walkVars, raceVars, ruleVars>>

\* the volunteer whose requests and removal are followed (Raghu) and the
\* kakad shifts asked for: the one Raghu holds and a free one
AuditVolunteers == {2}
AuditShiftIds == {SeedShift(5, "kakad"), SeedShift(11, "kakad")}

\* signup ids the DELETE requests name: the rows on the shifts asked for
AuditSignupIds == {r.id : r \in {x \in signups : x.shift_id \in AuditShiftIds}}

NextAudit ==
    \/ \E who \in AuditVolunteers, shift_id \in AuditShiftIds : post_signup(who, shift_id)
    \/ \E who \in AuditVolunteers, shift_id \in AuditShiftIds :
            wa_signup(who, shifts[shift_id].date, shifts[shift_id].shift_type)
    \/ \E signup_id \in AuditSignupIds : delete_signup(signup_id)
    \/ \E who \in AuditVolunteers, shift_id \in AuditShiftIds :
            wa_drop(who, shifts[shift_id].date, shifts[shift_id].shift_type)
    \/ \E d \in ClockDays : Tick(d)
    \/ \E who \in AuditVolunteers : delete_volunteer(who)

SpecAudit == Init /\ [][NextAudit]_vars

-----------------------------------------------------------------------------
(* The same handlers asked for shifts of two months, the seeded month and the
   month after it, on days of the signup windows of both *)

\* the shifts asked for: a kakad and a robe shift of each month
MonthsShiftIds ==
    {SeedShift(11, "kakad"), SeedShift(9, "robe"),
     find_shift(Date(NextMonthStart.y, NextMonthStart.m, 1), "kakad"),
     find_shift(Date(NextMonthStart.y, NextMonthStart.m, 2), "robe")}

\* the days the clock reaches: 13 days before each of the two months
MonthsClockDays == {minus_days(SeedMonthStart, 13), minus_days(NextMonthStart, 13)}

\* signup ids the DELETE requests name: the rows on the shifts asked for
MonthsSignupIds == {r.id : r \in {x \in signups : x.shift_id \in MonthsShiftIds}}

NextMonths ==
    \/ \E who \in {1, 2}, shift_id \in MonthsShiftIds : post_signup(who, shift_id)
    \/ \E signup_id \in MonthsSignupIds : delete_signup(signup_id)
    \/ \E d \in MonthsClockDays : Tick(d)

SpecMonths == Init /\ [][NextMonths]_vars

-----------------------------------------------------------------------------
(* The rule predicates of app/rules/pure.py applied to a count and a limit,
   as tests/test_rules_pure.py calls them with an explicit max *)

\* every predicate applied to the same count and limit
RuleResults(count, max) ==
    [kakad |-> check_kakad_limit(count, max),
     robe |-> check_robe_limit(count, max),
     thursday |-> check_thursday_limit(count, max),
     phase1_total |-> check_phase1_total(count, max),
     phase2_additional |-> check_phase2_additional(count, max),
     running_total |-> check_running_total(count, max),
     capacity |-> check_capacity(count, max)]

InitRules ==
    /\ volunteers = [id \in 1..10 |-> seed_volunteers[id]]
    /\ signups = {}
    /\ today = ClockStart
    /\ nwrites = 0
    /\ walk_start = SeedMonthStart
    /\ walk_day = SeedMonthStart
    /\ walk_k = 0
    /\ pending = <<>>
    /\ rule_count \in 0..MaxCount
    /\ rule_max \in 0..MaxLimit
    /\ rule_results = <<>>

apply_rules ==
    /\ rule_results = <<>>
    /\ rule_results' = RuleResults(rule_count, rule_max)
    /\ UNCHANGED <<rule_count, rule_max, storeVars, walkVars, raceVars>>

NextRules == apply_rules

SpecRules == InitRules /\ [][NextRules]_vars

-----------------------------------------------------------------------------
(* The phase classifier walked over the calendar, one day at a time *)

\* first days of the months the walk starts from: a leap year and a common
\* year, every month (so the walk crosses February and the year's end)
WalkStarts == {Date(y, m, 1) : y \in {2024, 2026}, m \in 1..12}

InitWalk ==
    /\ volunteers = [id \in 1..10 |-> seed_volunteers[id]]
    /\ signups = {}
    /\ today = ClockStart
    /\ nwrites = 0
    /\ walk_start \in WalkStarts
    /\ walk_day = walk_start
    /\ walk_k = 0
    /\ pending = <<>>
    /\ rule_count = 0
    /\ rule_max = 0
    /\ rule_results = <<>>

\* one calendar day further from the month start
WalkBack ==
    /\ walk_k < MaxDaysBefore
    /\ walk_day' = prev_day(walk_day)
    /\ walk_k' = walk_k + 1
    /\ UNCHANGED <<walk_start, storeVars, raceVars, ruleVars>>

\* one calendar day on
WalkForward ==
    /\ walk_k > -MaxDaysAfter
    /\ walk_day' = next_day(walk_day)
    /\ walk_k' = walk_k - 1
    /\ UNCHANGED <<walk_start, storeVars, raceVars, ruleVars>>

NextWalk == WalkBack \/ WalkForward

SpecPhase == InitWalk /\ [][NextWalk]_vars

WalkPhase == get_signup_phase(walk_day, walk_start)

-----------------------------------------------------------------------------
(* Claims about the phase classifier, under SpecPhase *)

-----------------------------------------------------------------------------
(* Claims about validate_signup and the handlers, under Spec.  The counts a
   claim speaks of are written out here from the tables, not taken from the
   query functions. *)

\* volunteer ids the claims are evaluated for: Sonia, Raghu, Anita (approved),
\* the pending one, the rejected one, and 99, an id no row has
ApprovedChecked == {1, 2, 4}
NotApprovedChecked == {11, 12, 99}

Violations(volunteer_id, shift_id, td) ==
    validate_signup(Db, volunteer_id, shift_id, td).violations

ViolationSet(volunteer_id, shift_id, td) ==
    LET vs == Violations(volunteer_id, shift_id, td)
    IN  {vs[i] : i \in 1..Len(vs)}

\* calendar days from today up to the first day of the shift's month
DaysBefore(shift_id, td) ==
    toordinal(Date(shifts[shift_id].date.y, shifts[shift_id].date.m, 1)) - toordinal(td)

\* active signups on a shift
Fill(shift_id) ==
    Cardinality({r \in signups : r.shift_id = shift_id /\ r.dropped_at = NULL})

\* a volunteer's active signups on shifts of the month of shift_id
Held(volunteer_id, shift_id) ==
    {r \in signups :
        /\ r.volunteer_id = volunteer_id
        /\ r.dropped_at = NULL
        /\ shifts[r.shift_id].date.y = shifts[shift_id].date.y
        /\ shifts[r.shift_id].date.m = shifts[shift_id].date.m}

HeldOfType(volunteer_id, shift_id, stype) ==
    {r \in Held(volunteer_id, shift_id) : shifts[r.shift_id].shift_type = stype}

HeldOnThursday(volunteer_id, shift_id) ==
    {r \in Held(volunteer_id, shift_id) : weekday(shifts[r.shift_id].date) = 3}

\* held signups created from 13 to 7 days before the month start
HeldFromWindow(volunteer_id, shift_id) ==
    {r \in Held(volunteer_id, shift_id) :
        DaysBefore(shift_id, r.signed_up_at) \in 7..13}

Denied(text, count, max) == [allowed |-> FALSE, reason |-> <<text, count, max>>]

\* C1: for a volunteer id without a row, or whose status is pending or
\* rejected, validate_signup returns exactly one violation, "Volunteer is not
\* approved to sign up", on every day and for every shift, full or not.
C1_ApprovalGate ==
    \A v \in NotApprovedChecked, s \in ReqShiftIds :
        (v \notin DOMAIN volunteers \/ volunteers[v].status \in {"pending", "rejected"})
        => validate_signup(Db, v, s, today) =
              [raised |-> "",
               violations |-> <<[allowed |-> FALSE,
                                 reason |-> <<"Volunteer is not approved to sign up">>]>>]

\* C1 witness: the month has started, a shift is full, and the pending
\* volunteer asking for it is answered with the approval violation alone
C1_Witness ==
    /\ today = SeedMonthStart
    /\ volunteers[11].status = "pending"
    /\ \E s \in ReqShiftIds :
        /\ Fill(s) >= shifts[s].capacity
        /\ Len(Violations(11, s, today)) = 1
        /\ Violations(11, s, today)[1].reason = <<"Volunteer is not approved to sign up">>

\* a violation saying that the signup window is not open yet
NotOpenYet(r) ==
    /\ ~r.allowed
    /\ r.reason # <<>>
    /\ r.reason[1] \in {"Signup window not open yet", "Signups are not open yet", "not open yet"}

\* C2 as stated: for an approved volunteer, 14 or more days before the first
\* day of the shift's month validate_signup returns a non-empty list holding a
\* "not open yet" violation, whether or not the shift has free capacity.
C2_BlockedDenies ==
    \A v \in ApprovedChecked, s \in ReqShiftIds :
        DaysBefore(s, today) >= 14 =>
            /\ Violations(v, s, today) # <<>>
            /\ \E r \in ViolationSet(v, s, today) : NotOpenYet(r)

\* C3: for an approved volunteer, from 13 days before the month start on, the
\* list holds "Shift is full (n/c)" iff the shift's n active signups are at
\* least its capacity c, and no capacity violation with other numbers.
C3_CapacityIff ==
    \A v \in ApprovedChecked, s \in ReqShiftIds :
        DaysBefore(s, today) < 14 =>
            /\ (Denied("Shift is full", Fill(s), shifts[s].capacity) \in ViolationSet(v, s, today))
                <=> (Fill(s) >= shifts[s].capacity)
            /\ \A r \in ViolationSet(v, s, today) :
                r.reason[1] = "Shift is full"
                => r = Denied("Shift is full", Fill(s), shifts[s].capacity)

\* C3 witness: in PHASE_2 a shift filled by a request after seeding is
\* reported full to another volunteer
C3_Witness ==
    /\ DaysBefore(SeedShift(11, "kakad"), today) \in 1..6
    /\ \E r \in signups :
        r.shift_id = SeedShift(11, "kakad") /\ r.volunteer_id = 1 /\ r.dropped_at = NULL
    /\ Denied("Shift is full", 1, 1) \in ViolationSet(2, SeedShift(11, "kakad"), today)

\* C4: with requests handled one at a time, the active signups on every shift
\* never exceed the shift's capacity.
C4_CapacityRespected ==
    \A s \in ShiftIds : Fill(s) <= shifts[s].capacity

\* C4 witness: a shift that was free after seeding has been filled to its
\* capacity by a request
C4_Witness ==
    /\ nwrites > 0
    /\ Fill(SeedShift(11, "kakad")) = shifts[SeedShift(11, "kakad")].capacity

\* the violations C5 names for volunteer v asking for shift s in PHASE_1
Phase1Expected(v, s) ==
    (IF shifts[s].shift_type = "kakad" /\ Cardinality(HeldOfType(v, s, "kakad")) >= 2
     THEN {Denied("Kakad limit reached", Cardinality(HeldOfType(v, s, "kakad")), 2)}
     ELSE {})
    \cup
    (IF shifts[s].shift_type = "robe" /\ Cardinality(HeldOfType(v, s, "robe")) >= 4
     THEN {Denied("Robe limit reached", Cardinality(HeldOfType(v, s, "robe")), 4)}
     ELSE {})
    \cup
    (IF weekday(shifts[s].date) = 3 /\ Cardinality(HeldOnThursday(v, s)) >= 1
     THEN {Denied("Thursday limit reached", Cardinality(HeldOnThursday(v, s)), 1)}
     ELSE {})
    \cup
    (IF Cardinality(Held(v, s)) >= 6
     THEN {Denied("Phase 1 total limit reached", Cardinality(Held(v, s)), 6)}
     ELSE {})

\* C5: in PHASE_1 (7 to 13 days before the month start), for an approved
\* volunteer and a shift with free capacity, the violations are exactly: kakad
\* limit iff the shift is kakad and the volunteer holds 2 or more kakad
\* signups; robe limit iff robe and 4 or more; Thursday limit iff the shift is
\* on a Thursday and 1 or more Thursday signups are held; Phase 1 total iff 6
\* or more signups are held in the month.  Each appears once.
C5_Phase1Exact ==
    \A v \in ApprovedChecked, s \in ReqShiftIds :
        (DaysBefore(s, today) \in 7..13 /\ Fill(s) < shifts[s].capacity)
        => /\ ViolationSet(v, s, today) = Phase1Expected(v, s)
           /\ Len(Violations(v, s, today)) = Cardinality(Phase1Expected(v, s))

\* C5 witness: in PHASE_1 a volunteer holding six signups, four robe and
\* one on a Thursday among them, asks for the free Thursday robe shift and
\* gets the Phase 1 total, robe and Thursday violations, in that order
C5_Witness ==
    /\ DaysBefore(SeedShift(5, "robe"), today) \in 7..13
    /\ weekday(shifts[SeedShift(5, "robe")].date) = 3
    /\ Fill(SeedShift(5, "robe")) < shifts[SeedShift(5, "robe")].capacity
    /\ \E v \in ApprovedChecked :
        /\ Len(Violations(v, SeedShift(5, "robe"), today)) = 3
        /\ Violations(v, SeedShift(5, "robe"), today)[1].reason[1] = "Phase 1 total limit reached"
        /\ Violations(v, SeedShift(5, "robe"), today)[2].reason[1] = "Robe limit reached"
        /\ Violations(v, SeedShift(5, "robe"), today)[3].reason[1] = "Thursday limit reached"

\* C6: in PHASE_2 (1 to 6 days before the month start), for an approved
\* volunteer and a shift with free capacity, the list holds the Phase 2
\* additional violation iff 2 or more held signups were made in the Phase 2
\* window, the running total violation iff 8 or more signups are held in the
\* month, and nothing else: no kakad, robe, Thursday or Phase 1 total violation.
C6_Phase2Exact ==
    \A v \in ApprovedChecked, s \in ReqShiftIds :
        (DaysBefore(s, today) \in 1..6 /\ Fill(s) < shifts[s].capacity)
        => ViolationSet(v, s, today) =
              (IF Cardinality(HeldFromWindow(v, s)) >= 2
               THEN {Denied("Phase 2 additional limit reached",
                            Cardinality(HeldFromWindow(v, s)), 2)}
               ELSE {})
              \cup
              (IF Cardinality(Held(v, s)) >= 8
               THEN {Denied("Running total limit reached", Cardinality(Held(v, s)), 8)}
               ELSE {})

\* C6 witness: in PHASE_2 the Thursday robe shift is free; a volunteer who
\* made two signups in the window is answered with the Phase 2 additional
\* violation alone, and one holding six signups, four of them robe and one on
\* a Thursday, none made in the window, is allowed
C6_Witness ==
    /\ DaysBefore(SeedShift(5, "robe"), today) \in 1..6
    /\ Fill(SeedShift(5, "robe")) < shifts[SeedShift(5, "robe")].capacity
    /\ \E v \in ApprovedChecked :
        /\ Cardinality(HeldFromWindow(v, SeedShift(5, "robe"))) = 2
        /\ Violations(v, SeedShift(5, "robe"), today)
              = <<Denied("Phase 2 additional limit reached", 2, 2)>>
    /\ \E v \in ApprovedChecked :
        /\ Cardinality(Held(v, SeedShift(5, "robe"))) = 6
        /\ Cardinality(HeldOfType(v, SeedShift(5, "robe"), "robe")) = 4
        /\ Cardinality(HeldOnThursday(v, SeedShift(5, "robe"))) = 1
        /\ Violations(v, SeedShift(5, "robe"), today) = <<>>

\* C7: on or after the first day of the shift's month, for an approved
\* volunteer, a shift with free capacity gets the empty list whatever the
\* volunteer holds, and any violation returned is the capacity one.
C7_MidMonthCapacityOnly ==
    \A v \in ApprovedChecked, s \in ReqShiftIds :
        DaysBefore(s, today) <= 0
        => /\ (Fill(s) < shifts[s].capacity => Violations(v, s, today) = <<>>)
           /\ \A r \in ViolationSet(v, s, today) : r.reason[1] = "Shift is full"

\* C7 witness: the month has started and a volunteer holding six or more
\* signups, two kakad and one on a Thursday among them, is allowed one more
C7_Witness ==
    /\ today = SeedMonthStart
    /\ \E v \in ApprovedChecked, s \in ReqShiftIds :
        /\ shifts[s].shift_type = "kakad"
        /\ Fill(s) < shifts[s].capacity
        /\ Cardinality(Held(v, s)) >= 6
        /\ Cardinality(HeldOfType(v, s, "kakad")) >= 2
        /\ Cardinality(HeldOnThursday(v, s)) >= 1
        /\ Violations(v, s, today) = <<>>

\* C10 as stated: with the store fixed, a signup allowed today is allowed on
\* every later day of the calendar.
C10_MonotonicRelaxation ==
    \A v \in ApprovedChecked, s \in ReqShiftIds, t2 \in ClockDays :
        (iso_le(today, t2) /\ Violations(v, s, today) = <<>>)
        => Violations(v, s, t2) = <<>>

-----------------------------------------------------------------------------
(* Claims about the Phase 2 quota *)

\* held signups created on a day that is n days before the month start, n in days
HeldCreated(volunteer_id, shift_id, days) ==
    {r \in Held(volunteer_id, shift_id) : DaysBefore(shift_id, r.signed_up_at) \in days}

\* C11 as stated: in PHASE_2, a volunteer holding six signups created during
\* PHASE_1 (7 to 13 days before the month start) and k more created during
\* PHASE_2 is allowed a further signup on a shift with free capacity while
\* k < 2 and denied it when k = 2.
C11_Phase2Ladder ==
    \A v \in ApprovedChecked, s \in ReqShiftIds :
        (/\ DaysBefore(s, today) \in 1..6
         /\ Cardinality(HeldCreated(v, s, 7..13)) = 6
         /\ Held(v, s) = HeldCreated(v, s, 7..13) \cup HeldCreated(v, s, 1..6)
         /\ Fill(s) < shifts[s].capacity
         /\ active_signup(signups, v, s) = {})
        => ((Violations(v, s, today) = <<>>)
                <=> (Cardinality(HeldCreated(v, s, 1..6)) < 2))

-----------------------------------------------------------------------------
(* Claims about dropped signups *)

\* a volunteer's kakad rows on shifts of the month of shift_id, dropped or not
KakadRows(volunteer_id, shift_id) ==
    {r \in signups :
        /\ r.volunteer_id = volunteer_id
        /\ shifts[r.shift_id].shift_type = "kakad"
        /\ shifts[r.shift_id].date.y = shifts[shift_id].date.y
        /\ shifts[r.shift_id].date.m = shifts[shift_id].date.m}

\* C12: every count validate_signup uses equals the number of matching
\* signups whose dropped timestamp is not set: the shift's signups, and the
\* volunteer's month total, kakad, robe, Thursday and window counts.  So a
\* volunteer with two kakad signups, one of them dropped, is not denied a
\* kakad signup by the kakad limit in PHASE_1.
C12_CountsIgnoreDropped ==
    \A v \in ApprovedChecked, s \in ReqShiftIds :
        LET year == shifts[s].date.y
            month == shifts[s].date.m
        IN  /\ get_shift_signup_count(Db, s) = Fill(s)
            /\ get_total_count(Db, v, year, month) = Cardinality(Held(v, s))
            /\ get_kakad_count(Db, v, year, month) = Cardinality(HeldOfType(v, s, "kakad"))
            /\ get_robe_count(Db, v, year, month) = Cardinality(HeldOfType(v, s, "robe"))
            /\ get_thursday_count(Db, v, year, month) = Cardinality(HeldOnThursday(v, s))
            /\ get_phase2_count(Db, v, year, month) = Cardinality(HeldFromWindow(v, s))
            /\ (/\ Cardinality(KakadRows(v, s)) = 2
                /\ Cardinality(HeldOfType(v, s, "kakad")) = 1
                /\ shifts[s].shift_type = "kakad"
                /\ DaysBefore(s, today) \in 7..13)
               => \A r \in ViolationSet(v, s, today) : r.reason[1] # "Kakad limit reached"

\* C12 witness: in PHASE_1 a volunteer has two kakad rows, one dropped by a
\* request, the kakad count is 1, and a free kakad shift gets no violation
C12_Witness ==
    /\ DaysBefore(SeedShift(11, "kakad"), today) \in 7..13
    /\ \E v \in ApprovedChecked, s \in ReqShiftIds :
        /\ shifts[s].shift_type = "kakad"
        /\ Cardinality(KakadRows(v, s)) = 2
        /\ \E r \in KakadRows(v, s) : r.dropped_at # NULL
        /\ get_kakad_count(Db, v, shifts[s].date.y, shifts[s].date.m) = 1
        /\ Fill(s) < shifts[s].capacity
        /\ Violations(v, s, today) = <<>>

\* approved volunteers without a signup row
FreshVolunteers ==
    {v \in DOMAIN volunteers :
        volunteers[v].status = "approved" /\ \A r \in signups : r.volunteer_id # v}

\* an active signup on the shift is marked dropped by the step
DroppedOn(shift_id) ==
    \E r \in signups :
        /\ r.shift_id = shift_id
        /\ r.dropped_at = NULL
        /\ \E r2 \in signups' : r2.id = r.id /\ r2.dropped_at # NULL

\* C13: when a shift is at capacity and a step drops one of its active
\* signups, the shift has one active signup fewer and, from 13 days before the
\* month start on, validate_signup for another approved volunteer who has no
\* signups returns no violation for that shift.
C13_DropFreesSlot ==
    [][\A s \in ReqShiftIds :
        (Fill(s) = shifts[s].capacity /\ DroppedOn(s))
        => /\ Cardinality({r \in signups' : r.shift_id = s /\ r.dropped_at = NULL})
                = shifts[s].capacity - 1
           /\ \A v \in FreshVolunteers :
                DaysBefore(s, today') < 14
                => validate_signup([volunteers |-> volunteers', signups |-> signups'],
                                   v, s, today').violations = <<>>]_vars

\* C13 witness: the kakad shift of the 5th, full after seeding, has had its
\* signup dropped by a request in PHASE_1, and the volunteer without signups
\* is allowed on it
C13_Witness ==
    /\ DaysBefore(SeedShift(5, "kakad"), today) \in 7..13
    /\ nwrites > 0
    /\ \E r \in signups : r.shift_id = SeedShift(5, "kakad") /\ r.dropped_at # NULL
    /\ Fill(SeedShift(5, "kakad")) = shifts[SeedShift(5, "kakad")].capacity - 1
    /\ 13 \in FreshVolunteers
    /\ Violations(13, SeedShift(5, "kakad"), today) = <<>>

-----------------------------------------------------------------------------
(* Claims about the rows of a (volunteer, shift) pair *)

\* no two rows share an id or a (volunteer, shift) pair
OneRowPerPair ==
    /\ Cardinality({r.id : r \in signups}) = Cardinality(signups)
    /\ Cardinality({<<r.volunteer_id, r.shift_id>> : r \in signups}) = Cardinality(signups)

\* a step that leaves an active signup on a pair whose row was dropped has
\* cleared the dropped timestamp of that row and added no row
ReactivatesSameRow ==
    \A r \in signups :
        (/\ r.dropped_at # NULL
         /\ \E r2 \in signups' :
                /\ r2.volunteer_id = r.volunteer_id
                /\ r2.shift_id = r.shift_id
                /\ r2.dropped_at = NULL)
        => /\ SignupRow(r.id, r.volunteer_id, r.shift_id, today, NULL) \in signups'
           /\ {x.id : x \in signups'} = {x.id : x \in signups}

\* C14: after any sequence of create_signup and drop_signup calls there is at
\* most one signup row, hence at most one active signup, for each (volunteer,
\* shift) pair, and create_signup on a pair whose row is dropped reactivates
\* that row (same id, dropped timestamp cleared) without adding a row.
C14_OneRowPerPair == []OneRowPerPair /\ [][ReactivatesSameRow]_vars

\* C14 witness: a seeded row was dropped and then reactivated by a request:
\* it is active, keeps its id, carries a later signup date, and the table has
\* as many rows as after seeding
C14_Witness ==
    /\ nwrites = 2
    /\ Cardinality(signups) = Cardinality(seed_signups(ClockStart))
    /\ \E r \in signups :
        /\ r.shift_id = SeedShift(5, "kakad")
        /\ r.dropped_at = NULL
        /\ r.signed_up_at # phase1_today
        /\ \E r0 \in seed_signups(ClockStart) :
            r0.id = r.id /\ r0.volunteer_id = r.volunteer_id /\ r0.shift_id = r.shift_id

-----------------------------------------------------------------------------
(* Claims about interleaved signup requests, under SpecRace *)

\* request i passed its checks and validation, and has been answered
Served(i) == pending[i].at = "done" /\ pending[i].reply \in {"201", "Signed up",
                 "500 IntegrityError", "Already signed up"}

\* C15 as stated: when two requests of different volunteers for the same
\* shift both pass validation before either writes, the second write does not
\* succeed (its caller is told of a conflict) and the shift does not end with
\* more active signups than its capacity.
C15_RaceConflict ==
    \A i, j \in DOMAIN pending :
        (/\ i < j
         /\ Served(i) /\ Served(j)
         /\ pending[i].shift_id = pending[j].shift_id
         /\ pending[i].volunteer_id # pending[j].volunteer_id)
        => /\ Fill(pending[i].shift_id) <= shifts[pending[i].shift_id].capacity
           /\ \E k \in {i, j} : pending[k].reply \notin {"201", "Signed up"}

\* C16 as stated: when two requests of the same volunteer for the same shift
\* both pass the existing-signup check and validation before either inserts,
\* one row for the pair exists afterwards and the losing caller answers with
\* a duplicate message, never with an unhandled error.
C16_DuplicateReported ==
    \A i, j \in DOMAIN pending :
        (/\ i < j
         /\ Served(i) /\ Served(j)
         /\ pending[i].shift_id = pending[j].shift_id
         /\ pending[i].volunteer_id = pending[j].volunteer_id)
        => /\ Cardinality(existing_signup(signups, pending[i].volunteer_id,
                                          pending[i].shift_id)) = 1
           /\ \E k \in {i, j} : pending[k].reply \in {"409 Duplicate signup", "Already signed up"}
           /\ \A k \in {i, j} : pending[k].reply # "500 IntegrityError"

-----------------------------------------------------------------------------
(* Claims about errors, order and the rule predicates *)

\* shift ids no row of the shifts table has
MissingShiftIds == {0, Cardinality(ShiftIds) + 1}

\* C17: for an approved volunteer and a shift id without a row,
\* validate_signup raises an error and returns no list, empty or not; every
\* denial by a rule, the approval gate included, is returned as a list and
\* never raised.
C17_MissingShiftRaises ==
    /\ \A v \in ApprovedChecked, s \in MissingShiftIds :
        /\ validate_signup(Db, v, s, today).raised = "ValueError"
        /\ validate_signup(Db, v, s, today) # Returned(<<>>)
    /\ \A v \in ApprovedChecked \cup NotApprovedChecked, s \in ReqShiftIds :
        validate_signup(Db, v, s, today).raised = ""

\* C17 witness: in PHASE_1, for one approved volunteer, a full existing shift
\* is denied with a returned list and a missing shift id raises
C17_Witness ==
    /\ DaysBefore(SeedShift(5, "kakad"), today) \in 7..13
    /\ \E v \in ApprovedChecked :
        /\ validate_signup(Db, v, 0, today) = Raised("ValueError")
        /\ validate_signup(Db, v, SeedShift(5, "kakad"), today).raised = ""
        /\ Len(validate_signup(Db, v, SeedShift(5, "kakad"), today).violations) >= 2

\* the rules in the order of the rule table, capacity first
TableOrder ==
    <<"Shift is full", "Kakad limit reached", "Robe limit reached", "Thursday limit reached",
      "Phase 1 total limit reached", "Phase 2 additional limit reached",
      "Running total limit reached">>

\* the rules in the order validate_signup evaluates them
EvaluationOrder ==
    <<"Shift is full", "Phase 1 total limit reached", "Kakad limit reached",
      "Robe limit reached", "Thursday limit reached", "Phase 2 additional limit reached",
      "Running total limit reached">>

\* the place of a violation in an order of the rules
Rank(order, r) == CHOOSE k \in 1..Len(order) : order[k] = r.reason[1]

\* the violations follow the order, each rule at most once
Ordered(order, violations) ==
    \A i, j \in 1..Len(violations) :
        i < j => Rank(order, violations[i]) < Rank(order, violations[j])

Denies(r, count, max) ==
    /\ r.allowed \in BOOLEAN
    /\ (r.allowed = FALSE) <=> (count >= max)
    /\ (r.reason # NoReason) <=> (r.allowed = FALSE)
    /\ r.allowed = FALSE =>
        /\ Len(r.reason) = 3
        /\ r.reason[2] = count
        /\ r.reason[3] = max

\* C19: every rule predicate returns allowed = false exactly when the count is
\* at least the limit, for all non-negative counts and limits, and its reason
\* is non-empty exactly when allowed = false and then carries 'count/limit'.
C19_DeniedIffAtLimit ==
    rule_results # <<>> =>
        \A name \in DOMAIN rule_results :
            Denies(rule_results[name], rule_count, rule_max)

\* C19 witness: the predicates applied to a count equal to a positive limit,
\* the boundary at which each of them starts to deny
C19_Witness ==
    /\ rule_count = RUNNING_TOTAL_MAX
    /\ rule_max = RUNNING_TOTAL_MAX
    /\ rule_results # <<>>
    /\ rule_results.running_total =
        RuleResult(FALSE, <<"Running total limit reached", RUNNING_TOTAL_MAX, RUNNING_TOTAL_MAX>>)
    /\ \A name \in DOMAIN rule_results : rule_results[name].allowed = FALSE

-----------------------------------------------------------------------------
(* Claims about the window of the Phase 2 additional count *)

\* a volunteer's active signups on shifts of the month of shift_id, created on
\* a day get_signup_phase places in the phase for that month
HeldCreatedIn(volunteer_id, shift_id, phase) ==
    {r \in Held(volunteer_id, shift_id) :
        get_signup_phase(r.signed_up_at,
                         Date(shifts[shift_id].date.y, shifts[shift_id].date.m, 1)) = phase}

\* C20 as stated: the Phase 2 additional count of a volunteer for a month is
\* the number of their active signups of that month created on a day the
\* phase classifier places in PHASE_2, so that no signup created on a PHASE_1
\* day is counted.
C20_CountsPhase2Created ==
    \A v \in ApprovedChecked, s \in ReqShiftIds :
        get_phase2_count(Db, v, shifts[s].date.y, shifts[s].date.m) =
            Cardinality(HeldCreatedIn(v, s, PHASE_2))

\* C21: get_phase2_count of a volunteer and a month is the number of the
\* volunteer's active signups on shifts of that month whose creation date lies
\* from 13 to 7 days before the month start, both end days included; signups
\* created earlier or later are not counted.
C21_WindowInclusive ==
    \A v \in ApprovedChecked, s \in ReqShiftIds :
        LET counted == {r \in Held(v, s) : DaysBefore(s, r.signed_up_at) \in 7..13}
            outside == {r \in Held(v, s) :
                            \/ DaysBefore(s, r.signed_up_at) > 13
                            \/ DaysBefore(s, r.signed_up_at) < 7}
        IN  /\ get_phase2_count(Db, v, shifts[s].date.y, shifts[s].date.m) = Cardinality(counted)
            /\ get_phase2_count(Db, v, shifts[s].date.y, shifts[s].date.m) =
                    Cardinality(Held(v, s)) - Cardinality(outside)

\* C21 witness: a volunteer holds a signup created on an end day of the
\* window and one created the day after the window or the day before it, and
\* the count is 1
C21_Witness ==
    \E v \in ApprovedChecked, s \in ReqShiftIds :
        /\ \E r \in Held(v, s) : DaysBefore(s, r.signed_up_at) \in {7, 13}
        /\ \E r \in Held(v, s) : DaysBefore(s, r.signed_up_at) \in {6, 14}
        /\ get_phase2_count(Db, v, shifts[s].date.y, shifts[s].date.m) = 1

-----------------------------------------------------------------------------
(* Claims about the month the counts are scoped to, under SpecMonths *)

same_month(a, b) == shifts[a].date.y = shifts[b].date.y /\ shifts[a].date.m = shifts[b].date.m

\* the store without the volunteer's signups on shifts of months other than
\* the month of shift_id
WithoutOtherMonths(volunteer_id, shift_id) ==
    [Db EXCEPT !.signups =
        {r \in signups : r.volunteer_id = volunteer_id => same_month(r.shift_id, shift_id)}]

\* a volunteer's active signups on shifts of months other than that of shift_id
HeldElsewhere(volunteer_id, shift_id) ==
    {r \in signups :
        /\ r.volunteer_id = volunteer_id
        /\ r.dropped_at = NULL
        /\ ~same_month(r.shift_id, shift_id)}

\* C22: validate_signup for a candidate shift returns the same violation list
\* on the store and on the store without the volunteer's signups on shifts of
\* other months: only signups of the candidate shift's month are counted.
C22_MonthScoped ==
    \A v \in ApprovedChecked, s \in MonthsShiftIds :
        validate_signup(Db, v, s, today).violations =
            validate_signup(WithoutOtherMonths(v, s), v, s, today).violations

\* C22 witness: in PHASE_1 of a kakad shift's month a volunteer whose active
\* kakad signups over both months reach the kakad limit is allowed the shift
C22_Witness ==
    \E v \in ApprovedChecked, s \in MonthsShiftIds :
        /\ shifts[s].shift_type = "kakad"
        /\ DaysBefore(s, today) \in 7..13
        /\ HeldElsewhere(v, s) # {}
        /\ Cardinality({r \in HeldElsewhere(v, s) \cup Held(v, s) :
                            shifts[r.shift_id].shift_type = "kakad"}) >= KAKAD_MAX
        /\ Violations(v, s, today) = <<>>

-----------------------------------------------------------------------------
(* Claims about the rows kept, under SpecAudit *)

\* every row stays, with its id, volunteer and shift
RowsKept ==
    \A r \in signups :
        \E k \in signups' :
            k.id = r.id /\ k.volunteer_id = r.volunteer_id /\ k.shift_id = r.shift_id

\* a step that drops a signup changes that one row, in its dropped timestamp only
DropSetsTimestamp ==
    (\E r \in signups, k \in signups' :
        r.id = k.id /\ r.dropped_at = NULL /\ k.dropped_at # NULL)
    => \E r \in signups :
        /\ r.dropped_at = NULL
        /\ signups' = (signups \ {r}) \cup {[r EXCEPT !.dropped_at = today]}

\* C23: no step of a signup request, of a drop through the HTTP endpoint or
\* the bot, or of a volunteer's removal deletes a signup row: the set of
\* signup ids only grows, and a drop only sets the dropped timestamp of the
\* row it targets.
C23_NeverDeleted == [][RowsKept /\ DropSetsTimestamp]_vars

\* C23 witness: a volunteer was removed after a signup of theirs was dropped
\* by a request, and the volunteer's rows are all still there
C23_Witness ==
    \E v \in AuditVolunteers :
        /\ volunteers[v].removed
        /\ \E r \in signups :
            r.volunteer_id = v /\ r.dropped_at # NULL /\ toordinal(r.dropped_at) > toordinal(ClockStart)
        /\ {r.id : r \in signups} = 1..Cardinality(signups)
        /\ Cardinality(signups) >= Cardinality(seed_signups(ClockStart))

-----------------------------------------------------------------------------
(* Claims taken from the test suite *)

\* C24 as stated: the classifier answers PHASE_1 on every day 14 or more days
\* before the month start, PHASE_2 on every day from 7 to 13 days before, and
\* MID_MONTH on every day fewer than 7 days before the month start or later.
C24_TestThresholds ==
    /\ walk_k >= 14 => WalkPhase = PHASE_1
    /\ (7 <= walk_k /\ walk_k <= 13) => WalkPhase = PHASE_2
    /\ walk_k < 7 => WalkPhase = MID_MONTH

\* C25 as stated: create_signup for a volunteer and a shift on which the
\* volunteer has an active signup raises an integrity error and leaves the
\* signups as they are.
C25_DuplicateRaises ==
    \A v \in ApprovedChecked, s \in ReqShiftIds :
        active_signup(signups, v, s) # {} =>
            /\ create_signup_raises(signups, v, s) = "sqlite3.IntegrityError"
            /\ create_signup(signups, v, s, today) = signups

\* C26 as stated: a signup request of a volunteer for a shift on which the
\* volunteer holds an active signup is answered as a duplicate by the HTTP
\* endpoint (409 Duplicate signup) and by the bot (Already signed up), and
\* leaves the signups as they are.
C26_DuplicateAnswered ==
    \A v \in ApprovedChecked, s \in ReqShiftIds :
        active_signup(signups, v, s) # {} =>
            /\ post_signup_reply(v, s) = "409 Duplicate signup"
            /\ handle_signup_reply(v, shifts[s].date, shifts[s].shift_type) = "Already signed up"
            /\ create_signup(signups, v, s, today) = signups

-----------------------------------------------------------------------------
(* Claims about refused and accepted drops *)

\* a drop request for a signup that does not exist or is dropped is refused
DropRefused ==
    /\ \A id \in 0..(Cardinality(signups) + 1) :
        (~\E r \in signups : r.id = id /\ r.dropped_at = NULL)
            <=> delete_signup_reply(id) = "404 Signup not found"
    /\ \A v \in ApprovedChecked, s \in ReqShiftIds :
        (~\E r \in signups : r.volunteer_id = v /\ r.shift_id = s /\ r.dropped_at = NULL)
            <=> handle_drop_reply(v, shifts[s].date, shifts[s].shift_type) =
                    "You don't have an active signup"

\* the dropped timestamp of a dropped row is not set again, and a row that
\* becomes dropped was active and is stamped with the day of the request
DroppedOnce ==
    \A r \in signups, k \in signups' :
        r.id = k.id =>
            /\ r.dropped_at # NULL => k.dropped_at \in {r.dropped_at, NULL}
            /\ (r.dropped_at = NULL /\ k.dropped_at # NULL) => k.dropped_at = today

\* C27: a drop request that targets a signup which does not exist or is
\* already dropped is refused (404 by the HTTP endpoint, "You don't have an
\* active signup" by the bot) and no dropped timestamp changes; a drop request
\* on an active signup sets its dropped timestamp.
C27_DropRefusedOrStamped == []DropRefused /\ [][DroppedOnce]_vars

\* C27 witness: a signup dropped by a request on an earlier day is still
\* stamped with that day, and a further DELETE of it would be refused
C27_Witness ==
    \E r \in signups :
        /\ r.id \in ReqSignupIds
        /\ r.dropped_at # NULL
        /\ toordinal(r.dropped_at) > toordinal(ClockStart)
        /\ toordinal(today) > toordinal(r.dropped_at)
        /\ delete_signup_reply(r.id) = "404 Signup not found"
        /\ handle_drop_reply(r.volunteer_id, shifts[r.shift_id].date,
                             shifts[r.shift_id].shift_type) = "You don't have an active signup"

-----------------------------------------------------------------------------
(* Claims about what a volunteer can come to hold, under SpecLadder and
   SpecRunning *)

\* every active signup the volunteer holds in the month of shift_id was
\* created on a day of one of the phases
AllCreatedIn(volunteer_id, shift_id, phases) ==
    \A r \in Held(volunteer_id, shift_id) :
        get_signup_phase(r.signed_up_at,
                         Date(shifts[shift_id].date.y, shifts[shift_id].date.m, 1)) \in phases

\* C28: a volunteer whose signups of a month were all created by validated
\* requests on PHASE_1 days, with drops in between, holds at most 6 active
\* signups in the month, at most 2 kakad, at most 4 robe and at most 1 on a
\* Thursday.
C28_Phase1Caps ==
    \A v \in ApprovedChecked, s \in ReqShiftIds :
        AllCreatedIn(v, s, {PHASE_1}) =>
            /\ Cardinality(Held(v, s)) <= 6
            /\ Cardinality(HeldOfType(v, s, "kakad")) <= 2
            /\ Cardinality(HeldOfType(v, s, "robe")) <= 4
            /\ Cardinality(HeldOnThursday(v, s)) <= 1

\* C28 witness: after a drop and a further accepted signup, both in PHASE_1,
\* a volunteer stands at the total, kakad and robe limits again and is denied
\* another kakad shift
C28_Witness ==
    \E v \in ApprovedChecked :
        LET s == SeedShift(11, "kakad")
        IN  /\ nwrites = 2
            /\ get_signup_phase(today, SeedMonthStart) = PHASE_1
            /\ AllCreatedIn(v, s, {PHASE_1})
            /\ \E r \in signups : r.volunteer_id = v /\ r.dropped_at # NULL
            /\ Cardinality(Held(v, s)) = 6
            /\ Cardinality(HeldOfType(v, s, "kakad")) = 2
            /\ Cardinality(HeldOfType(v, s, "robe")) = 4
            /\ active_signup(signups, v, s) = {}
            /\ Violations(v, s, today) # <<>>

\* C29: a volunteer whose signups of a month were all created by validated
\* requests on PHASE_1 or PHASE_2 days, with drops in between, holds at most
\* 8 active signups in the month.
C29_RunningTotalCap ==
    \A v \in ApprovedChecked, s \in ReqShiftIds :
        AllCreatedIn(v, s, {PHASE_1, PHASE_2}) => Cardinality(Held(v, s)) <= RUNNING_TOTAL_MAX

\* C29 witness: in PHASE_2, after a drop and a further accepted signup, a
\* volunteer holds 8 signups again, all created in PHASE_2, and is denied a
\* free shift by the running total alone
C29_Witness ==
    \E v \in ApprovedChecked, s \in ReqShiftIds :
        /\ nwrites = 2
        /\ get_signup_phase(today, SeedMonthStart) = PHASE_2
        /\ AllCreatedIn(v, s, {PHASE_2})
        /\ \E r \in signups : r.volunteer_id = v /\ r.dropped_at # NULL
        /\ Cardinality(Held(v, s)) = 8
        /\ Fill(s) < shifts[s].capacity
        /\ Reasons(Violations(v, s, today)) = <<<<"Running total limit reached", 8, 8>>>>

-----------------------------------------------------------------------------
(* Claims about the creation timestamp of a reactivated signup *)

\* C30: create_signup on a pair whose signup is dropped makes the row active
\* with the day of the call as its creation day, the earlier creation day
\* being lost, so that the window count of get_phase2_count takes the signup
\* by the day it was reactivated; create_signup on a pair with an active
\* signup leaves the table, and so that signup's creation day, as it is.
C30_ReactivationRestamps ==
    \A v \in ApprovedChecked, s \in ReqShiftIds :
        LET after == create_signup(signups, v, s, today)
            year == shifts[s].date.y
            month == shifts[s].date.m
        IN  \A r \in existing_signup(signups, v, s) :
                IF r.dropped_at = NULL
                THEN after = signups
                ELSE /\ after = (signups \ {r}) \cup
                                {[r EXCEPT !.signed_up_at = today, !.dropped_at = NULL]}
                     /\ get_phase2_count([Db EXCEPT !.signups = after], v, year, month) =
                            get_phase2_count(Db, v, year, month)
                            + (IF DaysBefore(s, today) \in 7..13 THEN 1 ELSE 0)

\* C30 witness: a seeded signup, created before the window, was dropped and
\* signed up for again by requests inside the window: it carries the day of
\* the second request and is the one signup the window count counts
C30_Witness ==
    \E r \in signups :
        /\ r.id <= Cardinality(seed_signups(ClockStart))
        /\ r.volunteer_id \in ApprovedChecked
        /\ r.shift_id \in ReqShiftIds
        /\ r.dropped_at = NULL
        /\ r.signed_up_at = today
        /\ DaysBefore(r.shift_id, today) \in 7..13
        /\ nwrites = 2
        /\ get_phase2_count(Db, r.volunteer_id, shifts[r.shift_id].date.y,
                            shifts[r.shift_id].date.m) = 1

====
